---- MODULE Spec2Model ----
(***************************************************************************)
(* High bit-depth Hadamard transforms of aom_dsp/arm/highbd_hadamard_neon.c *)
(* (8x8 leaf, 16x16 and 32x32 compositions), modelled lane by lane with the *)
(* integer widths of the NEON registers.                                    *)
(*                                                                          *)
(* Integers of the model checker are 32 bits wide, so the 32-bit lane       *)
(* operations are written without ever forming a value outside that width.  *)
(***************************************************************************)
EXTENDS Integers, Sequences, FiniteSets, TLC

\* ------------------------------------------------------------------ bounds
\* Largest sample magnitude of 12-bit content (comment at line 109).
MaxSample == 4095
\* Extra elements between the end of one row and the start of the next.
MaxPad == 1
\* Number of pseudo-random input blocks per size.
NumSeeds == 1
\* Constant blocks use C in -SmallC..SmallC, 5, 10 and the values next to the
\* bit-depth bound.
SmallC == 3

Sizes == {8, 16, 32}
\* Value of a local that is not live.
Nil == <<>>
INT16_MIN == -32768
INT16_MAX == 32767
INT32_MAX == 2147483647
INT32_MIN == (-2147483647) - 1

InInt16(x) == INT16_MIN <= x /\ x <= INT16_MAX
InInt32(x) == INT32_MIN <= x /\ x <= INT32_MAX

\* ------------------------------------------------------------ lane arithmetic
\* Two's complement wraparound of a 16-bit lane.
Wrap16(x) == ((x + 32768) % 65536) - 32768

\* 32-bit lane addition modulo 2^32.
Add32(x, y) ==
  IF y > 0 /\ x > INT32_MAX - y THEN (x + INT32_MIN) + (y + INT32_MIN)
  ELSE IF y < 0 /\ x < INT32_MIN - y THEN (x - INT32_MIN) + (y - INT32_MIN)
  ELSE x + y

\* 32-bit lane subtraction modulo 2^32.
Sub32(x, y) ==
  IF y < 0 /\ x > INT32_MAX + y THEN (x + INT32_MIN) - (y - INT32_MIN)
  ELSE IF y > 0 /\ x < INT32_MIN + y THEN (x - INT32_MIN) - (y + INT32_MIN)
  ELSE x - y

\* Arithmetic shift right of a signed lane by k bits: the sign bit is
\* replicated, i.e. ~(~x >> k) for negative x (where ~x = -x-1 >= 0).
Asr(x, k) == IF x >= 0 THEN x \div (2 ^ k) ELSE (-(((-x) - 1) \div (2 ^ k))) - 1

\* A register of 8 or 4 lanes is a tuple: lane l is element l + 1. The eight
\* registers a0..a7 (b0..b7, ...) of a pass are a tuple too: register k is
\* element k + 1.
Lane(v, l) == v[l + 1]
Regk(rs, k) == rs[k + 1]

\* Two's complement wraparound of an 8-bit lane.
Wrap8(x) == ((x + 128) % 256) - 128
\* Mutant: the sum taken on 8-bit lanes (vaddq_s8 on the reinterpreted
\* register); only the low byte of each 16-bit lane is modelled.
vaddq_s16_As8(x, y) ==
  <<Wrap8(x[1] + y[1]), Wrap8(x[2] + y[2]), Wrap8(x[3] + y[3]), Wrap8(x[4] + y[4]),
    Wrap8(x[5] + y[5]), Wrap8(x[6] + y[6]), Wrap8(x[7] + y[7]), Wrap8(x[8] + y[8])>>
\* Mutant: the saturating vqaddq_s16 in place of vaddq_s16.
Sat16(x) == IF x > 32767 THEN 32767 ELSE IF x < -32768 THEN -32768 ELSE x
vaddq_s16_Saturating(x, y) ==
  <<Sat16(x[1] + y[1]), Sat16(x[2] + y[2]), Sat16(x[3] + y[3]), Sat16(x[4] + y[4]),
    Sat16(x[5] + y[5]), Sat16(x[6] + y[6]), Sat16(x[7] + y[7]), Sat16(x[8] + y[8])>>
vaddq_s16(x, y) ==
  <<Wrap16(x[1] + y[1]), Wrap16(x[2] + y[2]), Wrap16(x[3] + y[3]), Wrap16(x[4] + y[4]),
    Wrap16(x[5] + y[5]), Wrap16(x[6] + y[6]), Wrap16(x[7] + y[7]), Wrap16(x[8] + y[8])>>
vsubq_s16(x, y) ==
  <<Wrap16(x[1] - y[1]), Wrap16(x[2] - y[2]), Wrap16(x[3] - y[3]), Wrap16(x[4] - y[4]),
    Wrap16(x[5] - y[5]), Wrap16(x[6] - y[6]), Wrap16(x[7] - y[7]), Wrap16(x[8] - y[8])>>
\* Mutant: the non-widening vadd_s16 in place of the widening add.
vaddl_s16_Narrow(x, y) ==
  <<Wrap16(x[1] + y[1]), Wrap16(x[2] + y[2]), Wrap16(x[3] + y[3]), Wrap16(x[4] + y[4])>>
\* Mutant: the halving add vhadd_s16 in place of the widening add.
vaddl_s16_Halving(x, y) ==
  <<Asr(x[1] + y[1], 1), Asr(x[2] + y[2], 1), Asr(x[3] + y[3], 1), Asr(x[4] + y[4], 1)>>
\* Widening add / subtract: the 17-bit result is exact in the 32-bit lane.
vaddl_s16(x, y) == <<x[1] + y[1], x[2] + y[2], x[3] + y[3], x[4] + y[4]>>
vsubl_s16(x, y) == <<x[1] - y[1], x[2] - y[2], x[3] - y[3], x[4] - y[4]>>
vaddq_s32(x, y) ==
  <<Add32(x[1], y[1]), Add32(x[2], y[2]), Add32(x[3], y[3]), Add32(x[4], y[4])>>
vsubq_s32(x, y) ==
  <<Sub32(x[1], y[1]), Sub32(x[2], y[2]), Sub32(x[3], y[3]), Sub32(x[4], y[4])>>
vshrq_n_s32(x, k) == <<Asr(x[1], k), Asr(x[2], k), Asr(x[3], k), Asr(x[4], k)>>
\* Halving add / subtract: (x + y) >> 1 and (x - y) >> 1 taken on the 33-bit
\* result, i.e. (x >> 1) + (y >> 1) + (x & y & 1) resp.
\* (x >> 1) - (y >> 1) - (~x & y & 1).
HAdd32(x, y) == Asr(x, 1) + Asr(y, 1) + (IF x % 2 = 1 /\ y % 2 = 1 THEN 1 ELSE 0)
HSub32(x, y) == Asr(x, 1) - Asr(y, 1) - (IF x % 2 = 0 /\ y % 2 = 1 THEN 1 ELSE 0)
\* Mutant: the halving rounds toward zero, as the C expression (x + y) / 2.
TruncHalf(x) == IF x >= 0 THEN x \div 2 ELSE -((-x) \div 2)
vhaddq_s32_TowardZero(x, y) ==
  <<TruncHalf(x[1] + y[1]), TruncHalf(x[2] + y[2]),
    TruncHalf(x[3] + y[3]), TruncHalf(x[4] + y[4])>>
\* Mutant: vaddq_s32 in place of vhaddq_s32 (the halving is lost).
vhaddq_s32_NoHalving(x, y) ==
  <<Add32(x[1], y[1]), Add32(x[2], y[2]), Add32(x[3], y[3]), Add32(x[4], y[4])>>
vhaddq_s32(x, y) ==
  <<HAdd32(x[1], y[1]), HAdd32(x[2], y[2]), HAdd32(x[3], y[3]), HAdd32(x[4], y[4])>>
\* Mutant: the halving of the difference rounds toward zero.
vhsubq_s32_TowardZero(x, y) ==
  <<TruncHalf(x[1] - y[1]), TruncHalf(x[2] - y[2]),
    TruncHalf(x[3] - y[3]), TruncHalf(x[4] - y[4])>>
vhsubq_s32(x, y) ==
  <<HSub32(x[1], y[1]), HSub32(x[2], y[2]), HSub32(x[3], y[3]), HSub32(x[4], y[4])>>

\* Memory is a function of the element index 0, 1, ...
vld1q_s16(mem, off) ==
  <<mem[off], mem[off + 1], mem[off + 2], mem[off + 3],
    mem[off + 4], mem[off + 5], mem[off + 6], mem[off + 7]>>
vld1q_s32(mem, off) == <<mem[off], mem[off + 1], mem[off + 2], mem[off + 3]>>
vst1q_s32(mem, off, v) ==
  [mem EXCEPT ![off] = v[1], ![off + 1] = v[2], ![off + 2] = v[3], ![off + 3] = v[4]]
vget_low_s16(x) == <<x[1], x[2], x[3], x[4]>>
vget_high_s16(x) == <<x[5], x[6], x[7], x[8]>>

\* ------------------------------------------------------------ the 8x8 kernel
\* Lines 26-33: b0..b7.
FirstPassB(a) ==
  <<vaddq_s16(a[1], a[2]), vsubq_s16(a[1], a[2]),
    vaddq_s16(a[3], a[4]), vsubq_s16(a[3], a[4]),
    vaddq_s16(a[5], a[6]), vsubq_s16(a[5], a[6]),
    vaddq_s16(a[7], a[8]), vsubq_s16(a[7], a[8])>>

\* Lines 35-42: c0..c7.
FirstPassC(b) ==
  <<vaddq_s16(b[1], b[3]), vaddq_s16(b[2], b[4]),
    vsubq_s16(b[1], b[3]), vsubq_s16(b[2], b[4]),
    vaddq_s16(b[5], b[7]), vaddq_s16(b[6], b[8]),
    vsubq_s16(b[5], b[7]), vsubq_s16(b[6], b[8])>>

\* Mutant: the results c0 + c4 and c0 - c4 written to each other's register.
FirstPassOut_Swap02(c) ==
  <<vsubq_s16(c[1], c[5]), vsubq_s16(c[3], c[7]),
    vaddq_s16(c[1], c[5]), vaddq_s16(c[3], c[7]),
    vaddq_s16(c[4], c[8]), vsubq_s16(c[4], c[8]),
    vsubq_s16(c[2], c[6]), vaddq_s16(c[2], c[6])>>
\* Mutant: the (c1, c5) pair written in the order of the other pairs
\* (sum to a6, difference to a7).
FirstPassOut_Swap67(c) ==
  <<vaddq_s16(c[1], c[5]), vsubq_s16(c[3], c[7]),
    vsubq_s16(c[1], c[5]), vaddq_s16(c[3], c[7]),
    vaddq_s16(c[4], c[8]), vsubq_s16(c[4], c[8]),
    vaddq_s16(c[2], c[6]), vsubq_s16(c[2], c[6])>>
\* Lines 44-51: the values written back to a0..a7.
FirstPassOut(c) ==
  <<vaddq_s16(c[1], c[5]), vsubq_s16(c[3], c[7]),
    vsubq_s16(c[1], c[5]), vaddq_s16(c[3], c[7]),
    vaddq_s16(c[4], c[8]), vsubq_s16(c[4], c[8]),
    vsubq_s16(c[2], c[6]), vaddq_s16(c[2], c[6])>>

\* The locals b, c and the rewritten a0..a7 of the first pass.
hadamard_highbd_col8_first_pass(a) ==
  LET b == FirstPassB(a)
      c == FirstPassC(b)
  IN  [b |-> b, c |-> c, a |-> FirstPassOut(c)]

\* Rows become columns: register k lane l receives register l lane k.
TransposeRow(a, k) ==
  <<a[1][k], a[2][k], a[3][k], a[4][k], a[5][k], a[6][k], a[7][k], a[8][k]>>
transpose_elems_inplace_s16_8x8(a) ==
  <<TransposeRow(a, 1), TransposeRow(a, 2), TransposeRow(a, 3), TransposeRow(a, 4),
    TransposeRow(a, 5), TransposeRow(a, 6), TransposeRow(a, 7), TransposeRow(a, 8)>>

\* Lines 59-66: b0..b7.
SecondPassB(a) ==
  <<vaddl_s16(a[1], a[2]), vsubl_s16(a[1], a[2]),
    vaddl_s16(a[3], a[4]), vsubl_s16(a[3], a[4]),
    vaddl_s16(a[5], a[6]), vsubl_s16(a[5], a[6]),
    vaddl_s16(a[7], a[8]), vsubl_s16(a[7], a[8])>>

\* Lines 68-75: c0..c7.
SecondPassC(b) ==
  <<vaddq_s32(b[1], b[3]), vaddq_s32(b[2], b[4]),
    vsubq_s32(b[1], b[3]), vsubq_s32(b[2], b[4]),
    vaddq_s32(b[5], b[7]), vaddq_s32(b[6], b[8]),
    vsubq_s32(b[5], b[7]), vsubq_s32(b[6], b[8])>>

\* Mutant: d1 and d2 exchanged (c0 - c4 as d1, c2 - c6 as d2).
SecondPassD_Swap12(c) ==
  <<vaddq_s32(c[1], c[5]), vsubq_s32(c[1], c[5]),
    vsubq_s32(c[3], c[7]), vaddq_s32(c[3], c[7]),
    vaddq_s32(c[4], c[8]), vsubq_s32(c[4], c[8]),
    vsubq_s32(c[2], c[6]), vaddq_s32(c[2], c[6])>>
\* Lines 77-84: d0..d7.
SecondPassD(c) ==
  <<vaddq_s32(c[1], c[5]), vsubq_s32(c[3], c[7]),
    vsubq_s32(c[1], c[5]), vaddq_s32(c[3], c[7]),
    vaddq_s32(c[4], c[8]), vsubq_s32(c[4], c[8]),
    vsubq_s32(c[2], c[6]), vaddq_s32(c[2], c[6])>>

\* Mutant: d0..d7 stored in descending address order.
SecondPassStore_Reversed(mem, off, d) ==
  LET m0 == vst1q_s32(mem, off + 28, d[1])
      m1 == vst1q_s32(m0, off + 24, d[2])
      m2 == vst1q_s32(m1, off + 20, d[3])
      m3 == vst1q_s32(m2, off + 16, d[4])
      m4 == vst1q_s32(m3, off + 12, d[5])
      m5 == vst1q_s32(m4, off + 8, d[6])
      m6 == vst1q_s32(m5, off + 4, d[7])
  IN  vst1q_s32(m6, off + 0, d[8])
\* Lines 86-93: the memory after the eight stores.
SecondPassStore(mem, off, d) ==
  LET m0 == vst1q_s32(mem, off + 0, d[1])
      m1 == vst1q_s32(m0, off + 4, d[2])
      m2 == vst1q_s32(m1, off + 8, d[3])
      m3 == vst1q_s32(m2, off + 12, d[4])
      m4 == vst1q_s32(m3, off + 16, d[5])
      m5 == vst1q_s32(m4, off + 20, d[6])
      m6 == vst1q_s32(m5, off + 24, d[7])
  IN  vst1q_s32(m6, off + 28, d[8])

\* The locals b, c, d of the second pass and the memory after its 8 stores.
hadamard_highbd_col4_second_pass(a, mem, off) ==
  LET b == SecondPassB(a)
      c == SecondPassC(b)
      d == SecondPassD(c)
  IN  [b |-> b, c |-> c, d |-> d, mem |-> SecondPassStore(mem, off, d)]

\* Lines 100-107: s0..s7.
Load8x8(mem, off, strd) ==
  <<vld1q_s16(mem, off + 0 * strd), vld1q_s16(mem, off + 1 * strd),
    vld1q_s16(mem, off + 2 * strd), vld1q_s16(mem, off + 3 * strd),
    vld1q_s16(mem, off + 4 * strd), vld1q_s16(mem, off + 5 * strd),
    vld1q_s16(mem, off + 6 * strd), vld1q_s16(mem, off + 7 * strd)>>
\* Lines 118-125 and 129-136: b0..b7 of the 8x8 function.
LowHalf(sr) ==
  <<vget_low_s16(sr[1]), vget_low_s16(sr[2]), vget_low_s16(sr[3]), vget_low_s16(sr[4]),
    vget_low_s16(sr[5]), vget_low_s16(sr[6]), vget_low_s16(sr[7]), vget_low_s16(sr[8])>>
HighHalf(sr) ==
  <<vget_high_s16(sr[1]), vget_high_s16(sr[2]), vget_high_s16(sr[3]), vget_high_s16(sr[4]),
    vget_high_s16(sr[5]), vget_high_s16(sr[6]), vget_high_s16(sr[7]), vget_high_s16(sr[8])>>
\* Mutant: the second call of the second pass stores one vector further on.
HighOffset_OneVectorOn == 32 + 4
\* Offset of the second call of the second pass.
HighOffset == 32

\* coeff memory after the whole 8x8 transform of the block at src + off. The
\* tuple lists the successive memory contents in program order (each is
\* computed before the next one is looked at); its last element is the result.
aom_highbd_hadamard_8x8_neon(smem, off, strd, cmem, coff) ==
  LET p1 == hadamard_highbd_col8_first_pass(Load8x8(smem, off, strd)).a
      t  == transpose_elems_inplace_s16_8x8(p1)
      lo == hadamard_highbd_col4_second_pass(LowHalf(t), cmem, coff).mem
      hi == hadamard_highbd_col4_second_pass(HighHalf(t), lo, coff + HighOffset).mem
  IN  <<lo, hi>>[2]

\* ------------------------------------------------------- 16x16 and 32x32
\* Mutant: the second sub-call is given coeff + 60.
Quad16Dst_Overlap(q) == CASE q = 0 -> 0 [] q = 1 -> 60 [] q = 2 -> 128 [] q = 3 -> 192
\* Source and coefficient offsets of the four 8x8 quadrants (lines 145-153).
Quad16Src(q, strd) ==
  CASE q = 0 -> 0 [] q = 1 -> 8 [] q = 2 -> 8 * strd [] q = 3 -> 8 * strd + 8
Quad16Dst(q) == CASE q = 0 -> 0 [] q = 1 -> 64 [] q = 2 -> 128 [] q = 3 -> 192

\* One iteration of the 16x16 combine loop: its locals and the memory after.
Combine16Iter(mem, coff, it) ==
  LET a0 == vld1q_s32(mem, coff + 4 * it)
      a1 == vld1q_s32(mem, coff + 4 * it + 64)
      a2 == vld1q_s32(mem, coff + 4 * it + 128)
      a3 == vld1q_s32(mem, coff + 4 * it + 192)
      b0 == vhaddq_s32(a0, a1)
      b1 == vhsubq_s32(a0, a1)
      b2 == vhaddq_s32(a2, a3)
      b3 == vhsubq_s32(a2, a3)
      c0 == vaddq_s32(b0, b2)
      c1 == vaddq_s32(b1, b3)
      c2 == vsubq_s32(b0, b2)
      c3 == vsubq_s32(b1, b3)
      m0 == vst1q_s32(mem, coff + 4 * it, c0)
      m1 == vst1q_s32(m0, coff + 4 * it + 64, c1)
      m2 == vst1q_s32(m1, coff + 4 * it + 128, c2)
  IN  [a |-> <<a0, a1, a2, a3>>, s |-> Nil, b |-> <<b0, b1, b2, b3>>,
       c |-> <<c0, c1, c2, c3>>,
       mem |-> vst1q_s32(m2, coff + 4 * it + 192, c3)]

\* Iterations it, ..., 15 of the loop in program order.
RECURSIVE Combine16Loop(_, _, _)
Combine16Loop(mem, coff, it) ==
  IF it = 16 THEN mem
  ELSE LET w == Combine16Iter(mem, coff, it).mem
       IN  <<w, Combine16Loop(w, coff, it + 1)>>[2]

\* coeff memory after the whole 16x16 transform of the block at src + off.
aom_highbd_hadamard_16x16_neon(smem, off, strd, cmem, coff) ==
  LET m0 == aom_highbd_hadamard_8x8_neon(smem, off + Quad16Src(0, strd), strd,
                                         cmem, coff + Quad16Dst(0))
      m1 == aom_highbd_hadamard_8x8_neon(smem, off + Quad16Src(1, strd), strd,
                                         m0, coff + Quad16Dst(1))
      m2 == aom_highbd_hadamard_8x8_neon(smem, off + Quad16Src(2, strd), strd,
                                         m1, coff + Quad16Dst(2))
      m3 == aom_highbd_hadamard_8x8_neon(smem, off + Quad16Src(3, strd), strd,
                                         m2, coff + Quad16Dst(3))
  IN  <<m0, m1, m2, m3, Combine16Loop(m3, coff, 0)>>[5]

\* Source and coefficient offsets of the four 16x16 quadrants (lines 182-190).
Quad32Src(q, strd) ==
  CASE q = 0 -> 0 [] q = 1 -> 16 [] q = 2 -> 16 * strd [] q = 3 -> 16 * strd + 16
Quad32Dst(q) == CASE q = 0 -> 0 [] q = 1 -> 256 [] q = 2 -> 512 [] q = 3 -> 768

\* Mutant: the shift applied after the final add / subtract.
Combine32Iter_ShiftLast(mem, coff, it) ==
  LET a0 == vld1q_s32(mem, coff + 4 * it)
      a1 == vld1q_s32(mem, coff + 4 * it + 256)
      a2 == vld1q_s32(mem, coff + 4 * it + 512)
      a3 == vld1q_s32(mem, coff + 4 * it + 768)
      s0 == vaddq_s32(a0, a1)
      s1 == vsubq_s32(a0, a1)
      s2 == vaddq_s32(a2, a3)
      s3 == vsubq_s32(a2, a3)
      c0 == vshrq_n_s32(vaddq_s32(s0, s2), 2)
      c1 == vshrq_n_s32(vaddq_s32(s1, s3), 2)
      c2 == vshrq_n_s32(vsubq_s32(s0, s2), 2)
      c3 == vshrq_n_s32(vsubq_s32(s1, s3), 2)
      m0 == vst1q_s32(mem, coff + 4 * it, c0)
      m1 == vst1q_s32(m0, coff + 4 * it + 256, c1)
      m2 == vst1q_s32(m1, coff + 4 * it + 512, c2)
  IN  [a |-> <<a0, a1, a2, a3>>, s |-> <<s0, s1, s2, s3>>,
       b |-> <<s0, s1, s2, s3>>, c |-> <<c0, c1, c2, c3>>,
       mem |-> vst1q_s32(m2, coff + 4 * it + 768, c3)]

\* One iteration of the 32x32 combine loop: its locals (s: the sums and
\* differences before the shift) and the memory after.
Combine32Iter(mem, coff, it) ==
  LET a0 == vld1q_s32(mem, coff + 4 * it)
      a1 == vld1q_s32(mem, coff + 4 * it + 256)
      a2 == vld1q_s32(mem, coff + 4 * it + 512)
      a3 == vld1q_s32(mem, coff + 4 * it + 768)
      s0 == vaddq_s32(a0, a1)
      s1 == vsubq_s32(a0, a1)
      s2 == vaddq_s32(a2, a3)
      s3 == vsubq_s32(a2, a3)
      b0 == vshrq_n_s32(s0, 2)
      b1 == vshrq_n_s32(s1, 2)
      b2 == vshrq_n_s32(s2, 2)
      b3 == vshrq_n_s32(s3, 2)
      c0 == vaddq_s32(b0, b2)
      c1 == vaddq_s32(b1, b3)
      c2 == vsubq_s32(b0, b2)
      c3 == vsubq_s32(b1, b3)
      m0 == vst1q_s32(mem, coff + 4 * it, c0)
      m1 == vst1q_s32(m0, coff + 4 * it + 256, c1)
      m2 == vst1q_s32(m1, coff + 4 * it + 512, c2)
  IN  [a |-> <<a0, a1, a2, a3>>, s |-> <<s0, s1, s2, s3>>,
       b |-> <<b0, b1, b2, b3>>, c |-> <<c0, c1, c2, c3>>,
       mem |-> vst1q_s32(m2, coff + 4 * it + 768, c3)]

\* Iterations it, ..., 63 of the loop in program order.
RECURSIVE Combine32Loop(_, _, _)
Combine32Loop(mem, coff, it) ==
  IF it = 64 THEN mem
  ELSE LET w == Combine32Iter(mem, coff, it).mem
       IN  <<w, Combine32Loop(w, coff, it + 1)>>[2]

\* coeff memory after the whole 32x32 transform of the block at src + off.
aom_highbd_hadamard_32x32_neon(smem, off, strd, cmem, coff) ==
  LET m0 == aom_highbd_hadamard_16x16_neon(smem, off + Quad32Src(0, strd), strd,
                                           cmem, coff + Quad32Dst(0))
      m1 == aom_highbd_hadamard_16x16_neon(smem, off + Quad32Src(1, strd), strd,
                                           m0, coff + Quad32Dst(1))
      m2 == aom_highbd_hadamard_16x16_neon(smem, off + Quad32Src(2, strd), strd,
                                           m1, coff + Quad32Dst(2))
      m3 == aom_highbd_hadamard_16x16_neon(smem, off + Quad32Src(3, strd), strd,
                                           m2, coff + Quad32Dst(3))
  IN  <<m0, m1, m2, m3, Combine32Loop(m3, coff, 0)>>[5]

\* ------------------------------------------------------------------ inputs
\* An NxN block is a function of <<row, column>>.
Cells(N) == (0 .. N - 1) \X (0 .. N - 1)
ConstBlock(N, C) == [p \in Cells(N) |-> C]
Impulse(N, r, c, v) == [p \in Cells(N) |-> IF p = <<r, c>> THEN v ELSE 0]
\* Column 0 holds 1, 2, 4, ..., 128 in rows 0..7; everything else is 0.
ColPow(N) == [p \in Cells(N) |-> IF p[2] = 0 /\ p[1] < 8 THEN 2 ^ p[1] ELSE 0]
\* Row 0 holds 1, 2, 4, ..., 128 in columns 0..7; everything else is 0.
RowPow(N) == [p \in Cells(N) |-> IF p[1] = 0 /\ p[2] < 8 THEN 2 ^ p[2] ELSE 0]
\* Full-magnitude sign patterns: the sign flips every pr rows and pc columns.
Stripe(N, A, pr, pc) ==
  [p \in Cells(N) |-> IF ((p[1] \div pr) + (p[2] \div pc)) % 2 = 0 THEN A ELSE -A]
\* Unstructured samples in -amp..amp.
Scatter(N, seed, amp) ==
  [p \in Cells(N) |->
     ((seed * 2749 + p[1] * 1933 + p[2] * 977 + p[1] * p[2] * 331
       + p[1] * p[1] * 37 + p[2] * p[2] * p[2] * 11) % (2 * amp + 1)) - amp]

NearBound == {MaxSample - 1, MaxSample, 1 - MaxSample, -MaxSample}
ConstVals == (-SmallC .. SmallC) \cup {5, 10} \cup NearBound
ImpulsePos(N) == IF N = 8 THEN 0 .. 7 ELSE {0, 7, 8, N - 1}
Periods(N) == {1, 2, 4, N}

Inputs(N) ==
  {ConstBlock(N, C) : C \in ConstVals}
  \cup {Impulse(N, r, c, v) : r \in ImpulsePos(N), c \in ImpulsePos(N), v \in {1, -1}}
  \cup {ColPow(N), RowPow(N)}
  \cup {Stripe(N, A, pr, pc) : A \in {MaxSample, -MaxSample}, pr \in Periods(N), pc \in Periods(N)}
  \cup {Scatter(N, seed, amp) : seed \in 1 .. NumSeeds, amp \in {MaxSample, MaxSample \div 2}}

\* Values of memory the program has not written.
PadVals == {-32768}
UninitVals == {-1431655766}

\* Row-strided memory image of a block; pad holds the elements between rows.
SrcImage(N, strd, blk, pad) ==
  [x \in 0 .. (N - 1) * strd + N - 1 |->
     IF x % strd < N THEN blk[<<x \div strd, x % strd>>] ELSE pad]

\* ------------------------------------------------------------------- state
VARIABLES
  n,        \* size of the transform being called: 8, 16 or 32
  stride,   \* src_stride
  src,      \* the memory at src_diff
  coeff,    \* the memory at coeff
  pc,       \* position in the called function
  i,        \* quadrant about to be transformed, or loop counter of the combine
  s,        \* s0..s7 of the 8x8 function
  p1b, p1c, \* b0..b7, c0..c7 of the first pass
  p2b, p2c, p2d, \* b0..b7, c0..c7, d0..d7 of the last second pass
  la, ls, lb, lc \* a0..a3, shifted operands, b0..b3, c0..c3 of the last combine iteration

\* Two calls running at once on one address space.
VARIABLES
  heap,     \* the memory the two calls share, by element address
  inv       \* per call: its arguments, its position and its registers

\* A call whose quadrants and combine iterations run in a chosen order.
VARIABLES
  doneq,    \* quadrants already transformed
  order     \* the order of the combine iterations

\* The frame buffer list of the decoder test and its callers.
VARIABLES
  num_buffers,       \* num_buffers_
  num_used_buffers,  \* num_used_buffers_
  ext_fb_list,       \* ext_fb_list_[0 .. num_buffers_ - 1]
  fb,                \* the aom_codec_frame_buffer_t of each caller
  ret,               \* the last call and its return value
  misuse             \* a buffer that was not held has been returned

callVars == <<n, stride, src, coeff, pc, i, s, p1b, p1c, p2b, p2c, p2d, la, ls, lb, lc>>
parVars == <<heap, inv>>
ordVars == <<doneq, order>>
fbVars == <<num_buffers, num_used_buffers, ext_fb_list, fb, ret, misuse>>
vars == <<callVars, parVars, ordVars, fbVars>>
locals8 == <<s, p1b, p1c, p2b, p2c, p2d>>
localsC == <<la, ls, lb, lc>>

\* The parts of the state that a specification does not exercise.
NoCall ==
  /\ n = 8 /\ stride = 8 /\ src = Nil /\ coeff = Nil /\ pc = "idle" /\ i = 0
  /\ s = Nil /\ p1b = Nil /\ p1c = Nil
  /\ p2b = Nil /\ p2c = Nil /\ p2d = Nil
  /\ la = Nil /\ ls = Nil /\ lb = Nil /\ lc = Nil
NoPar == heap = Nil /\ inv = Nil
NoOrder == doneq = {} /\ order = Nil
NoFrameBuffers ==
  /\ num_buffers = 0 /\ num_used_buffers = 0 /\ ext_fb_list = Nil
  /\ fb = Nil /\ ret = Nil /\ misuse = FALSE

Init ==
  /\ n \in Sizes
  /\ stride \in n .. n + MaxPad
  /\ \E blk \in Inputs(n), pad \in PadVals : src = SrcImage(n, stride, blk, pad)
  /\ \E u \in UninitVals : coeff = [x \in 0 .. n * n - 1 |-> u]
  /\ pc = IF n = 8 THEN "load" ELSE "quad"
  /\ i = 0
  /\ s = Nil /\ p1b = Nil /\ p1c = Nil
  /\ p2b = Nil /\ p2c = Nil /\ p2d = Nil
  /\ la = Nil /\ ls = Nil /\ lb = Nil /\ lc = Nil
  /\ NoPar /\ NoOrder /\ NoFrameBuffers

\* Lines 100-107.
Load ==
  /\ n = 8 /\ pc = "load"
  /\ s' = Load8x8(src, 0, stride)
  /\ pc' = "pass1"
  /\ UNCHANGED <<n, stride, src, coeff, i, p1b, p1c, p2b, p2c, p2d, localsC, parVars, ordVars, fbVars>>

\* Line 110.
FirstPass ==
  /\ n = 8 /\ pc = "pass1"
  /\ LET r == hadamard_highbd_col8_first_pass(s)
     IN  s' = r.a /\ p1b' = r.b /\ p1c' = r.c
  /\ pc' = "transpose"
  /\ UNCHANGED <<n, stride, src, coeff, i, p2b, p2c, p2d, localsC, parVars, ordVars, fbVars>>

\* Line 112.
Transpose ==
  /\ n = 8 /\ pc = "transpose"
  /\ s' = transpose_elems_inplace_s16_8x8(s)
  /\ pc' = "low"
  /\ UNCHANGED <<n, stride, src, coeff, i, p1b, p1c, p2b, p2c, p2d, localsC, parVars, ordVars, fbVars>>

\* Lines 118-127.
SecondPassLow ==
  /\ n = 8 /\ pc = "low"
  /\ LET r == hadamard_highbd_col4_second_pass(LowHalf(s), coeff, 0)
     IN  coeff' = r.mem /\ p2b' = r.b /\ p2c' = r.c /\ p2d' = r.d
  /\ pc' = "high"
  /\ UNCHANGED <<n, stride, src, i, s, p1b, p1c, localsC, parVars, ordVars, fbVars>>

\* Lines 129-138.
SecondPassHigh ==
  /\ n = 8 /\ pc = "high"
  /\ LET r == hadamard_highbd_col4_second_pass(HighHalf(s), coeff, HighOffset)
     IN  coeff' = r.mem /\ p2b' = r.b /\ p2c' = r.c /\ p2d' = r.d
  /\ pc' = "done"
  /\ UNCHANGED <<n, stride, src, i, s, p1b, p1c, localsC, parVars, ordVars, fbVars>>

\* Lines 145-153: the call on quadrant i.
Call8x8 ==
  /\ n = 16 /\ pc = "quad"
  /\ coeff' = aom_highbd_hadamard_8x8_neon(src, Quad16Src(i, stride), stride,
                                           coeff, Quad16Dst(i))
  /\ IF i = 3 THEN pc' = "combine" /\ i' = 0 ELSE pc' = pc /\ i' = i + 1
  /\ UNCHANGED <<n, stride, src, locals8, localsC, parVars, ordVars, fbVars>>

\* Lines 155-175: one iteration of the loop.
Combine16 ==
  /\ n = 16 /\ pc = "combine" /\ i < 16
  /\ LET r == Combine16Iter(coeff, 0, i)
     IN  coeff' = r.mem /\ la' = r.a /\ ls' = r.s /\ lb' = r.b /\ lc' = r.c
  /\ i' = i + 1
  /\ pc' = IF i + 1 < 16 THEN pc ELSE "done"
  /\ UNCHANGED <<n, stride, src, locals8, parVars, ordVars, fbVars>>

\* Lines 182-190: the call on quadrant i.
Call16x16 ==
  /\ n = 32 /\ pc = "quad"
  /\ coeff' = aom_highbd_hadamard_16x16_neon(src, Quad32Src(i, stride), stride,
                                             coeff, Quad32Dst(i))
  /\ IF i = 3 THEN pc' = "combine" /\ i' = 0 ELSE pc' = pc /\ i' = i + 1
  /\ UNCHANGED <<n, stride, src, locals8, localsC, parVars, ordVars, fbVars>>

\* Lines 192-212: one iteration of the loop.
Combine32 ==
  /\ n = 32 /\ pc = "combine" /\ i < 64
  /\ LET r == Combine32Iter(coeff, 0, i)
     IN  coeff' = r.mem /\ la' = r.a /\ ls' = r.s /\ lb' = r.b /\ lc' = r.c
  /\ i' = i + 1
  /\ pc' = IF i + 1 < 64 THEN pc ELSE "done"
  /\ UNCHANGED <<n, stride, src, locals8, parVars, ordVars, fbVars>>

Next ==
  \/ Load \/ FirstPass \/ Transpose \/ SecondPassLow \/ SecondPassHigh
  \/ Call8x8 \/ Combine16
  \/ Call16x16 \/ Combine32

Spec == Init /\ [][Next]_vars

\* The 8x8 transform alone, on every constant block within the bit depth.
InitConst8 ==
  /\ n = 8
  /\ stride = 8
  /\ \E C \in -MaxSample .. MaxSample, pad \in PadVals :
       src = SrcImage(8, 8, ConstBlock(8, C), pad)
  /\ \E u \in UninitVals : coeff = [x \in 0 .. 63 |-> u]
  /\ pc = "load"
  /\ i = 0
  /\ s = Nil /\ p1b = Nil /\ p1c = Nil
  /\ p2b = Nil /\ p2c = Nil /\ p2d = Nil
  /\ la = Nil /\ ls = Nil /\ lb = Nil /\ lc = Nil
  /\ NoPar /\ NoOrder /\ NoFrameBuffers

Next8 == Load \/ FirstPass \/ Transpose \/ SecondPassLow \/ SecondPassHigh

SpecConst8 == InitConst8 /\ [][Next8]_vars

\* The 8x8 transform on constant blocks beyond the bit depth: the first
\* MaxBeyond values above 4095 and below -4095, and the ends of int16_t.
MaxBeyond == 10
BeyondVals ==
  (MaxSample + 1 .. MaxSample + MaxBeyond)
  \cup (-MaxSample - MaxBeyond .. -MaxSample - 1)
  \cup {INT16_MAX, INT16_MIN}
InitBeyond8 ==
  /\ n = 8
  /\ stride = 8
  /\ \E C \in BeyondVals, pad \in PadVals : src = SrcImage(8, 8, ConstBlock(8, C), pad)
  /\ \E u \in UninitVals : coeff = [x \in 0 .. 63 |-> u]
  /\ pc = "load"
  /\ i = 0
  /\ s = Nil /\ p1b = Nil /\ p1c = Nil
  /\ p2b = Nil /\ p2c = Nil /\ p2d = Nil
  /\ la = Nil /\ ls = Nil /\ lb = Nil /\ lc = Nil
  /\ NoPar /\ NoOrder /\ NoFrameBuffers

SpecBeyond8 == InitBeyond8 /\ [][Next8]_vars

TypeOK ==
  /\ n \in Sizes /\ stride \in n .. n + MaxPad
  /\ pc \in {"load", "pass1", "transpose", "low", "high", "quad", "combine", "done"}
  /\ \A x \in DOMAIN src : InInt16(src[x])
  /\ \A x \in DOMAIN coeff : InInt32(coeff[x])

\* ------------------------------------------------------ two calls at once
\* Elements left unused before, between and after the buffers.
GuardLen == 4
Calls == {1, 2}
\* Number of elements from the first to the last sample of an NxN block.
SrcLen(N, strd) == (N - 1) * strd + N
\* The block and the stride given to call k.
ParInput(k, N) == Scatter(N, k, MaxSample)
ParStride(k, N) == N + (k - 1) * MaxPad

\* The arguments of a call and its position: src_diff (sb), src_stride, coeff
\* (cb), the registers s0..s7 (a) of an 8x8 call, and the block it was given.
NewCall(k, N, sb, cb) ==
  [n |-> N, stride |-> ParStride(k, N), sb |-> sb, cb |-> cb,
   pc |-> IF N = 8 THEN "load" ELSE "quad", i |-> 0, a |-> Nil,
   blk |-> ParInput(k, N)]
InSrc(c, x) == c.sb <= x /\ x < c.sb + SrcLen(c.n, c.stride)
InCoeff(c, x) == c.cb <= x /\ x < c.cb + c.n * c.n
\* The initial contents of the shared memory: elements 1 .. size (address 0 is
\* the null pointer).
HeapImage(c1, c2, size) ==
  [x \in 1 .. size |->
     LET Cell(c) == IF (x - c.sb) % c.stride < c.n
                    THEN c.blk[<<(x - c.sb) \div c.stride, (x - c.sb) % c.stride>>]
                    ELSE CHOOSE v \in PadVals : TRUE
     IN  IF InSrc(c1, x) THEN Cell(c1)
         ELSE IF InSrc(c2, x) THEN Cell(c2)
         ELSE IF InCoeff(c1, x) \/ InCoeff(c2, x) THEN CHOOSE v \in UninitVals : TRUE
         ELSE CHOOSE v \in PadVals : TRUE]

\* The buffers are laid out one after the other, or (shared) two 8x8 calls are
\* given the same output buffer.
InitPar ==
  /\ \E n1 \in Sizes, n2 \in Sizes, shared \in BOOLEAN :
       /\ shared => (n1 = 8 /\ n2 = 8)
       /\ LET sb1 == GuardLen + 1
              cb1 == sb1 + SrcLen(n1, ParStride(1, n1)) + GuardLen
              sb2 == cb1 + n1 * n1 + GuardLen
              cb2 == sb2 + SrcLen(n2, ParStride(2, n2)) + GuardLen
              c1  == NewCall(1, n1, sb1, cb1)
              c2  == NewCall(2, n2, sb2, IF shared THEN cb1 ELSE cb2)
          IN  /\ inv = <<c1, c2>>
              /\ heap = HeapImage(c1, c2, cb2 + n2 * n2 + GuardLen - 1)
  /\ NoCall /\ NoOrder /\ NoFrameBuffers

\* The pointer arguments of call k.
SrcBase(k) == inv[k].sb
\* Mutant: every call stores through the coeff pointer of call 1.
CoeffBase_OfCall1(k) == inv[1].cb
CoeffBase(k) == inv[k].cb

\* Lines 100-107 of call k.
ParLoad(k) ==
  /\ inv[k].n = 8 /\ inv[k].pc = "load"
  /\ inv' = [inv EXCEPT ![k].a = Load8x8(heap, SrcBase(k), inv[k].stride),
                        ![k].pc = "pass1"]
  /\ UNCHANGED <<heap, callVars, ordVars, fbVars>>

\* Line 110 of call k.
ParFirstPass(k) ==
  /\ inv[k].n = 8 /\ inv[k].pc = "pass1"
  /\ inv' = [inv EXCEPT ![k].a = hadamard_highbd_col8_first_pass(inv[k].a).a,
                        ![k].pc = "transpose"]
  /\ UNCHANGED <<heap, callVars, ordVars, fbVars>>

\* Line 112 of call k.
ParTranspose(k) ==
  /\ inv[k].n = 8 /\ inv[k].pc = "transpose"
  /\ inv' = [inv EXCEPT ![k].a = transpose_elems_inplace_s16_8x8(inv[k].a),
                        ![k].pc = "low"]
  /\ UNCHANGED <<heap, callVars, ordVars, fbVars>>

\* Lines 118-127 of call k.
ParSecondPassLow(k) ==
  /\ inv[k].n = 8 /\ inv[k].pc = "low"
  /\ heap' = hadamard_highbd_col4_second_pass(LowHalf(inv[k].a), heap, CoeffBase(k)).mem
  /\ inv' = [inv EXCEPT ![k].pc = "high"]
  /\ UNCHANGED <<callVars, ordVars, fbVars>>

\* Lines 129-138 of call k.
ParSecondPassHigh(k) ==
  /\ inv[k].n = 8 /\ inv[k].pc = "high"
  /\ heap' = hadamard_highbd_col4_second_pass(HighHalf(inv[k].a), heap,
                                              CoeffBase(k) + HighOffset).mem
  /\ inv' = [inv EXCEPT ![k].pc = "done"]
  /\ UNCHANGED <<callVars, ordVars, fbVars>>

\* Position of call k after the sub-call on quadrant i.
AfterQuadrant(k) ==
  IF inv[k].i = 3 THEN [inv EXCEPT ![k].pc = "combine", ![k].i = 0]
  ELSE [inv EXCEPT ![k].i = inv[k].i + 1]
\* Position of call k after iteration i of a loop of cnt iterations.
AfterIteration(k, cnt) ==
  [inv EXCEPT ![k].i = inv[k].i + 1,
              ![k].pc = IF inv[k].i + 1 < cnt THEN "combine" ELSE "done"]

\* Lines 145-153 of call k: the sub-call on quadrant i.
ParCall8x8(k) ==
  /\ inv[k].n = 16 /\ inv[k].pc = "quad"
  /\ heap' = aom_highbd_hadamard_8x8_neon(
               heap, SrcBase(k) + Quad16Src(inv[k].i, inv[k].stride), inv[k].stride,
               heap, CoeffBase(k) + Quad16Dst(inv[k].i))
  /\ inv' = AfterQuadrant(k)
  /\ UNCHANGED <<callVars, ordVars, fbVars>>

\* Lines 155-175 of call k: one iteration.
ParCombine16(k) ==
  /\ inv[k].n = 16 /\ inv[k].pc = "combine" /\ inv[k].i < 16
  /\ heap' = Combine16Iter(heap, CoeffBase(k), inv[k].i).mem
  /\ inv' = AfterIteration(k, 16)
  /\ UNCHANGED <<callVars, ordVars, fbVars>>

\* Lines 182-190 of call k: the sub-call on quadrant i.
ParCall16x16(k) ==
  /\ inv[k].n = 32 /\ inv[k].pc = "quad"
  /\ heap' = aom_highbd_hadamard_16x16_neon(
               heap, SrcBase(k) + Quad32Src(inv[k].i, inv[k].stride), inv[k].stride,
               heap, CoeffBase(k) + Quad32Dst(inv[k].i))
  /\ inv' = AfterQuadrant(k)
  /\ UNCHANGED <<callVars, ordVars, fbVars>>

\* Lines 192-212 of call k: one iteration.
ParCombine32(k) ==
  /\ inv[k].n = 32 /\ inv[k].pc = "combine" /\ inv[k].i < 64
  /\ heap' = Combine32Iter(heap, CoeffBase(k), inv[k].i).mem
  /\ inv' = AfterIteration(k, 64)
  /\ UNCHANGED <<callVars, ordVars, fbVars>>

NextPar ==
  \/ \E k \in Calls : ParLoad(k)
  \/ \E k \in Calls : ParFirstPass(k)
  \/ \E k \in Calls : ParTranspose(k)
  \/ \E k \in Calls : ParSecondPassLow(k)
  \/ \E k \in Calls : ParSecondPassHigh(k)
  \/ \E k \in Calls : ParCall8x8(k)
  \/ \E k \in Calls : ParCombine16(k)
  \/ \E k \in Calls : ParCall16x16(k)
  \/ \E k \in Calls : ParCombine32(k)

SpecPar == InitPar /\ [][NextPar]_vars

\* -------------------------------------------- a call taken in another order
\* An order of the iterations 0 .. cnt - 1 of a combine loop: the j-th
\* iteration taken is (mul * j + add) mod cnt, mul odd.
Orders(cnt) == {<<mul, add>> : mul \in {1, 5, cnt - 1}, add \in {0, 3}}
IterationAt(ord, cnt, j) == (ord[1] * j + ord[2]) % cnt
OrdInputs(N) == {Scatter(N, 1, MaxSample), Impulse(N, 0, 0, -1)}
\* Number of iterations of the combine loop (lines 155 and 192).
Iterations(N) == IF N = 16 THEN 16 ELSE 64

InitAnyOrder ==
  /\ n \in {16, 32}
  /\ stride \in {n, n + MaxPad}
  /\ \E blk \in OrdInputs(n), pad \in PadVals : src = SrcImage(n, stride, blk, pad)
  /\ \E u \in UninitVals : coeff = [x \in 0 .. n * n - 1 |-> u]
  /\ pc = "quad"
  /\ i = 0
  /\ doneq = {}
  /\ order \in Orders(Iterations(n))
  /\ s = Nil /\ p1b = Nil /\ p1c = Nil
  /\ p2b = Nil /\ p2c = Nil /\ p2d = Nil
  /\ la = Nil /\ ls = Nil /\ lb = Nil /\ lc = Nil
  /\ NoPar /\ NoFrameBuffers

\* Lines 145-153, the four sub-calls taken in any order.
Quadrant8AnyOrder ==
  /\ n = 16 /\ pc = "quad"
  /\ \E q \in (0 .. 3) \ doneq :
       /\ coeff' = aom_highbd_hadamard_8x8_neon(src, Quad16Src(q, stride), stride,
                                                coeff, Quad16Dst(q))
       /\ doneq' = doneq \cup {q}
  /\ pc' = IF doneq' = 0 .. 3 THEN "combine" ELSE pc
  /\ UNCHANGED <<n, stride, src, i, order, locals8, localsC, parVars, fbVars>>

\* Lines 182-190, the four sub-calls taken in any order.
Quadrant16AnyOrder ==
  /\ n = 32 /\ pc = "quad"
  /\ \E q \in (0 .. 3) \ doneq :
       /\ coeff' = aom_highbd_hadamard_16x16_neon(src, Quad32Src(q, stride), stride,
                                                  coeff, Quad32Dst(q))
       /\ doneq' = doneq \cup {q}
  /\ pc' = IF doneq' = 0 .. 3 THEN "combine" ELSE pc
  /\ UNCHANGED <<n, stride, src, i, order, locals8, localsC, parVars, fbVars>>

\* Lines 155-175, the i-th iteration taken being iteration IterationAt(order, 16, i).
Combine16AnyOrder ==
  /\ n = 16 /\ pc = "combine" /\ i < 16
  /\ LET r == Combine16Iter(coeff, 0, IterationAt(order, 16, i))
     IN  coeff' = r.mem /\ la' = r.a /\ ls' = r.s /\ lb' = r.b /\ lc' = r.c
  /\ i' = i + 1
  /\ pc' = IF i + 1 < 16 THEN pc ELSE "done"
  /\ UNCHANGED <<n, stride, src, doneq, order, locals8, parVars, fbVars>>

\* Lines 192-212, the i-th iteration taken being iteration IterationAt(order, 64, i).
Combine32AnyOrder ==
  /\ n = 32 /\ pc = "combine" /\ i < 64
  /\ LET r == Combine32Iter(coeff, 0, IterationAt(order, 64, i))
     IN  coeff' = r.mem /\ la' = r.a /\ ls' = r.s /\ lb' = r.b /\ lc' = r.c
  /\ i' = i + 1
  /\ pc' = IF i + 1 < 64 THEN pc ELSE "done"
  /\ UNCHANGED <<n, stride, src, doneq, order, locals8, parVars, fbVars>>

NextAnyOrder ==
  \/ Quadrant8AnyOrder \/ Quadrant16AnyOrder
  \/ Combine16AnyOrder \/ Combine32AnyOrder

SpecAnyOrder == InitAnyOrder /\ [][NextAnyOrder]_vars

\* ------------------------------------------------- ExternalFrameBufferList
\* Largest list, number of callers, largest min_size, and how far below zero
\* num_used_buffers_ is followed.
MaxBuffers == 2
MaxHolders == 2
MaxSize == 2
MaxDeficit == 1
Holders == 1 .. MaxHolders
\* nullptr as the value of fb->priv and of a data pointer; 1 is any other
\* data pointer.
NullPtr == -1
SomePtr == 1
\* An entry after memset (line 59) and a frame buffer struct nobody has set.
ZeroEntry == [data |-> NullPtr, size |-> 0, in_use |-> 0]
UnsetFb == [data |-> NullPtr, size |-> 0, priv |-> NullPtr, holding |-> FALSE]

\* Lines 39-40: the constructed list, and callers holding nothing.
InitFrameBuffers ==
  /\ num_buffers = 0 /\ num_used_buffers = 0
  /\ ext_fb_list = Nil
  /\ fb = [h \in Holders |-> UnsetFb]
  /\ ret = Nil
  /\ misuse = FALSE
  /\ NoCall /\ NoPar /\ NoOrder

\* Lines 50-61.
CreateBufferList ==
  /\ ret = Nil
  /\ \E nb \in 0 .. MaxBuffers :
       /\ num_buffers' = nb
       /\ ext_fb_list' = [e \in 0 .. nb - 1 |-> ZeroEntry]
       /\ ret' = [op |-> "CreateBufferList", rv |-> 1, h |-> 0, min_size |-> 0,
                  asserted |-> FALSE]
  /\ UNCHANGED <<num_used_buffers, fb, misuse, callVars, parVars, ordVars>>

\* Lines 139-146.
FindFreeBufferIndex ==
  IF \E e \in 0 .. num_buffers - 1 : ext_fb_list[e].in_use = 0
  THEN CHOOSE e \in 0 .. num_buffers - 1 :
         /\ ext_fb_list[e].in_use = 0
         /\ \A d \in 0 .. e - 1 : ext_fb_list[d].in_use # 0
  ELSE num_buffers

\* Lines 150-157: the list and the caller's struct after SetFrameBuffer(idx, fb)
\* on list lst; ASSERT_EQ returns from the function when it fails.
SetFrameBuffer(lst, idx, h) ==
  LET set == [fb[h] EXCEPT !.data = lst[idx].data, !.size = lst[idx].size]
  IN  IF lst[idx].in_use # 0
      THEN [list |-> lst, fbs |-> [fb EXCEPT ![h] = set], asserted |-> TRUE]
      ELSE [list |-> [lst EXCEPT ![idx].in_use = 1],
            fbs |-> [fb EXCEPT ![h] = [set EXCEPT !.priv = idx, !.holding = TRUE]],
            asserted |-> FALSE]

\* Mutant: the search starts over at the first entry when the list is full.
GetIndex_Wrap == IF FindFreeBufferIndex = num_buffers /\ num_buffers > 0
                 THEN 0 ELSE FindFreeBufferIndex
\* Line 69 and line 92: const int idx = FindFreeBufferIndex().
GetIndex == FindFreeBufferIndex

\* Lines 67-86, called by a caller whose struct holds no buffer.
GetFreeFrameBuffer ==
  /\ ret # Nil
  /\ \E h \in Holders, min_size \in 1 .. MaxSize :
       /\ ~fb[h].holding
       /\ LET idx == GetIndex
              grown == IF ext_fb_list[idx].size < min_size
                       THEN [ext_fb_list EXCEPT ![idx].data = SomePtr,
                                                ![idx].size = min_size]
                       ELSE ext_fb_list
              r == SetFrameBuffer(grown, idx, h)
          IN  IF idx = num_buffers
              THEN /\ ret' = [op |-> "GetFreeFrameBuffer", rv |-> -1, h |-> h,
                              min_size |-> min_size, asserted |-> FALSE]
                   /\ UNCHANGED <<ext_fb_list, fb, num_used_buffers>>
              ELSE /\ ext_fb_list' = r.list
                   /\ fb' = r.fbs
                   /\ num_used_buffers' = num_used_buffers + 1
                   /\ ret' = [op |-> "GetFreeFrameBuffer", rv |-> 0, h |-> h,
                              min_size |-> min_size, asserted |-> r.asserted]
  /\ UNCHANGED <<num_buffers, misuse, callVars, parVars, ordVars>>

\* Lines 90-103, called by a caller whose struct holds no buffer.
GetZeroFrameBuffer ==
  /\ ret # Nil
  /\ \E h \in Holders, min_size \in 1 .. MaxSize :
       /\ ~fb[h].holding
       /\ LET idx == GetIndex
              grown == IF ext_fb_list[idx].size < min_size
                       THEN [ext_fb_list EXCEPT ![idx].data = NullPtr,
                                                ![idx].size = min_size]
                       ELSE ext_fb_list
              r == SetFrameBuffer(grown, idx, h)
          IN  IF idx = num_buffers
              THEN /\ ret' = [op |-> "GetZeroFrameBuffer", rv |-> -1, h |-> h,
                              min_size |-> min_size, asserted |-> FALSE]
                   /\ UNCHANGED <<ext_fb_list, fb>>
              ELSE /\ ext_fb_list' = r.list
                   /\ fb' = r.fbs
                   /\ ret' = [op |-> "GetZeroFrameBuffer", rv |-> 0, h |-> h,
                              min_size |-> min_size, asserted |-> r.asserted]
  /\ UNCHANGED <<num_buffers, num_used_buffers, misuse, callVars, parVars, ordVars>>

\* Lines 107-122, called with the struct of any caller, held or not.
ReturnFrameBuffer ==
  /\ ret # Nil
  /\ num_used_buffers > -MaxDeficit
  /\ \E h \in Holders :
       IF fb[h].priv = NullPtr
       THEN /\ ret' = [op |-> "ReturnFrameBuffer", rv |-> -1, h |-> h,
                       min_size |-> 0, asserted |-> FALSE]
            /\ UNCHANGED <<ext_fb_list, fb, num_used_buffers, misuse>>
       ELSE /\ ext_fb_list' = [ext_fb_list EXCEPT ![fb[h].priv].in_use = 0]
            /\ num_used_buffers' = num_used_buffers - 1
            /\ fb' = [fb EXCEPT ![h].holding = FALSE]
            /\ misuse' = (misuse \/ ~fb[h].holding)
            /\ ret' = [op |-> "ReturnFrameBuffer", rv |-> 0, h |-> h,
                       min_size |-> 0, asserted |-> FALSE]
  /\ UNCHANGED <<num_buffers, callVars, parVars, ordVars>>

NextFrameBuffers ==
  \/ CreateBufferList
  \/ GetFreeFrameBuffer \/ GetZeroFrameBuffer
  \/ ReturnFrameBuffer

SpecFrameBuffers == InitFrameBuffers /\ [][NextFrameBuffers]_vars

\* The list used through GetFreeFrameBuffer and ReturnFrameBuffer only.
NextFreeReturn ==
  \/ CreateBufferList
  \/ GetFreeFrameBuffer
  \/ ReturnFrameBuffer

SpecFreeReturn == InitFrameBuffers /\ [][NextFreeReturn]_vars

\* ------------------------------------------------------------ vocabulary
\* Sample (r, c) of the block being transformed.
Sample(r, c) == src[r * stride + c]
InputBlock == [p \in Cells(n) |-> Sample(p[1], p[2])]
InputIsConst(C) == \A p \in Cells(n) : Sample(p[1], p[2]) = C
InputIsImpulse(r, c, v) ==
  \A p \in Cells(n) : Sample(p[1], p[2]) = IF p = <<r, c>> THEN v ELSE 0
WithinBitDepth(blk) == \A p \in DOMAIN blk : -MaxSample <= blk[p] /\ blk[p] <= MaxSample
Done(N) == n = N /\ pc = "done"
OnlyDC(N, dc) == coeff[0] = dc /\ \A x \in 1 .. N * N - 1 : coeff[x] = 0

\* C1: the 8x8 transform of a block whose 64 samples all equal C, |C| <= 4095
\* (C = 0 included), leaves 64*C at output index 0 and 0 at the other 63.
C1_Const8 ==
  Done(8) =>
    LET C == Sample(0, 0)
    IN  (-MaxSample <= C /\ C <= MaxSample /\ InputIsConst(C)) => OnlyDC(8, 64 * C)

C1_Witness == Done(8) /\ InputIsConst(-MaxSample) /\ coeff[0] = -262080 /\ coeff[63] = 0

\* C2: the 16x16 and the 32x32 transform of a constant block of value C,
\* |C| <= 4095, leave 128*C at output index 0 and 0 at every other index.
C2_Const16_32 ==
  \A N \in {16, 32} :
    Done(N) =>
      LET C == Sample(0, 0)
      IN  (-MaxSample <= C /\ C <= MaxSample /\ InputIsConst(C)) => OnlyDC(N, 128 * C)

C2_Witness ==
  Done(32) /\ InputIsConst(MaxSample) /\ coeff[0] = 524160 /\ coeff[1023] = 0

\* The 8x8 transform of a block given by value, as a coefficient vector (the
\* call overwrites all of the 64 elements it is handed).
Transform8(blk) == aom_highbd_hadamard_8x8_neon(SrcImage(8, 8, blk, 0), 0, 8, coeff, 0)
BlockSum(A, B) == [p \in DOMAIN A |-> A[p] + B[p]]
\* Second operands of the linearity check.
LinPartners ==
  {ConstBlock(8, 1), ConstBlock(8, -2000), Impulse(8, 3, 5, -1), RowPow(8),
   Stripe(8, 2047, 1, 2), Scatter(8, 2, MaxSample \div 2), Scatter(8, 3, MaxSample)}
LinearWith(B) ==
  LET A == InputBlock
  IN  (WithinBitDepth(A) /\ WithinBitDepth(B) /\ WithinBitDepth(BlockSum(A, B))) =>
        LET tb == Transform8(B)
            ts == Transform8(BlockSum(A, B))
        IN  \A x \in 0 .. 63 : ts[x] = coeff[x] + tb[x]

\* C3: the 8x8 transform is exactly additive: whenever A, B and A+B are within
\* the bit depth, its output on A+B is, index by index, the sum of its outputs
\* on A and on B.
C3_Linear8 == Done(8) => \A B \in LinPartners : LinearWith(B)

C3_Witness ==
  /\ Done(8)
  /\ InputBlock = Scatter(8, 1, MaxSample \div 2)
  /\ WithinBitDepth(BlockSum(InputBlock, Scatter(8, 2, MaxSample \div 2)))
  /\ \E x \in 1 .. 63 : coeff[x] # 0 /\ Transform8(Scatter(8, 2, MaxSample \div 2))[x] # 0

\* Sign of input index x in output position k of the 8-point network, from
\* the table of section 4.1 expanded through its b and c equations.
Sgn8Table ==
  << <<1,  1,  1,  1,  1,  1,  1,  1>>,
     <<1,  1, -1, -1, -1, -1,  1,  1>>,
     <<1,  1,  1,  1, -1, -1, -1, -1>>,
     <<1,  1, -1, -1,  1,  1, -1, -1>>,
     <<1, -1, -1,  1,  1, -1, -1,  1>>,
     <<1, -1, -1,  1, -1,  1,  1, -1>>,
     <<1, -1,  1, -1, -1,  1, -1,  1>>,
     <<1, -1,  1, -1,  1, -1,  1, -1>> >>
Sgn8(k, x) == Sgn8Table[k + 1][x + 1]
\* Basis positions of output index x: the pass-2 position and the pass-1
\* position (the lane within the low or high group).
HorizPos(x) == (x % 32) \div 4
VertPos(x) == 4 * (x \div 32) + (x % 4)

\* C4: for a unit impulse at (row r, column c) every output of the 8x8
\* transform is +1 or -1, namely the product of the section 4.1 sign of input
\* r at the output's pass-1 position and of input c at its pass-2 position.
C4_Impulse8 ==
  Done(8) =>
    \A r \in 0 .. 7, c \in 0 .. 7 :
      InputIsImpulse(r, c, 1) =>
        \A x \in 0 .. 63 :
          /\ coeff[x] \in {1, -1}
          /\ coeff[x] = Sgn8(VertPos(x), r) * Sgn8(HorizPos(x), c)

C4_Witness == Done(8) /\ InputIsImpulse(5, 6, 1) /\ coeff[0] = 1 /\ coeff[63] = -1

\* Value y = e0*1 + e1*2 + ... + e7*128 with every e in {1, -1}: the sign
\* e_x is bit x of (y + 255) / 2.
IsSignCombination(y) == y % 2 = 1 /\ -255 <= y /\ y <= 255
SignOfInput(y, x) == IF (((y + 255) \div 2) \div (2 ^ x)) % 2 = 1 THEN 1 ELSE -1
SignChanges(y) == Cardinality({x \in 0 .. 6 : SignOfInput(y, x) # SignOfInput(y, x + 1)})
\* The first pass has just run on the column 1, 2, 4, ..., 128.
AfterFirstPassOfColPow == n = 8 /\ pc = "transpose" /\ InputBlock = ColPow(8)
\* A second pass has just run on registers holding 1, 2, 4, ..., 128.
AfterSecondPassOfRowPow == n = 8 /\ pc \in {"high", "done"} /\ InputBlock = RowPow(8)
\* Output position k of each pass is a +/-1 combination of the 8 inputs with
\* Count(k) sign changes.
SignChangesAre(Count(_)) ==
  /\ AfterFirstPassOfColPow =>
       \A k \in 0 .. 7 :
         /\ IsSignCombination(Lane(Regk(s, k), 0))
         /\ SignChanges(Lane(Regk(s, k), 0)) = Count(k)
  /\ AfterSecondPassOfRowPow =>
       \A k \in 0 .. 7, l \in 0 .. 3 :
         /\ IsSignCombination(Lane(Regk(p2d, k), l))
         /\ SignChanges(Lane(Regk(p2d, k), l)) = Count(k)
Sorted(k) == k
Exchanged12(k) == IF k = 1 THEN 2 ELSE IF k = 2 THEN 1 ELSE k

\* C5 as stated: output position k of the 8-point network (a0..a7 of the
\* first pass, d0..d7 of the second) is the +/-1 combination of the 8 inputs
\* whose sign pattern has exactly k sign changes.
C5_Original == SignChangesAre(Sorted)

\* C5 amended: output positions 0, 3, 4, 5, 6, 7 have exactly 0, 3, 4, 5, 6, 7
\* sign changes, position 1 has 2 and position 2 has 1: each number of sign
\* changes occurs once, but positions 1 and 2 are not in sequency order.
C5_SignChanges == SignChangesAre(Exchanged12)

C5_Witness ==
  /\ AfterSecondPassOfRowPow /\ pc = "done"
  /\ SignChanges(Lane(Regk(p2d, 1), 3)) = 2
  /\ SignChanges(Lane(Regk(p2d, 2), 3)) = 1

\* d0..d7 of the second pass over the low group of the transposed registers.
LowGroupD == SecondPassD(SecondPassC(SecondPassB(LowHalf(s))))
\* The m-th result vector of the low group is at LowAt(m)..LowAt(m)+3, that of
\* the high group at HighAt(m)..HighAt(m)+3.
LayoutIs(LowAt(_), HighAt(_)) ==
  /\ (n = 8 /\ pc = "high") =>
       \A m \in 0 .. 7, l \in 0 .. 3 : coeff[LowAt(m) + l] = Lane(Regk(p2d, m), l)
  /\ Done(8) =>
       \A m \in 0 .. 7, l \in 0 .. 3 :
         /\ coeff[LowAt(m) + l] = Lane(Regk(LowGroupD, m), l)
         /\ coeff[HighAt(m) + l] = Lane(Regk(p2d, m), l)
RowMajorLow(m) == 8 * m
RowMajorHigh(m) == 8 * m + 4
PackedLow(m) == 4 * m
PackedHigh(m) == 32 + 4 * m

\* C6 as stated: the m-th result vector of the low 4-column group is stored at
\* output indices 8m..8m+3 and that of the high group at 8m+4..8m+7.
C6_Original == LayoutIs(RowMajorLow, RowMajorHigh)

\* C6 amended: the m-th result vector of the low group is stored at output
\* indices 4m..4m+3 and that of the high group at 32+4m..32+4m+3, so the 8
\* results of the low group fill indices 0..31 and those of the high group
\* 32..63 (each group is 32 contiguous elements, not 4 columns of a row-major
\* 8x8 grid).
C6_Layout == LayoutIs(PackedLow, PackedHigh)

C6_Witness ==
  /\ Done(8) /\ InputBlock = Scatter(8, 1, MaxSample)
  /\ coeff[36] = Lane(Regk(p2d, 1), 0)
  /\ coeff[4] = Lane(Regk(LowGroupD, 1), 0)
  /\ coeff[12] # coeff[36]

\* The butterfly equations of section 4.1 on unbounded integers, lane by lane.
ExactAdd(x, y) == [l \in DOMAIN x |-> x[l] + y[l]]
ExactSub(x, y) == [l \in DOMAIN x |-> x[l] - y[l]]
ExactB(a) ==
  <<ExactAdd(a[1], a[2]), ExactSub(a[1], a[2]), ExactAdd(a[3], a[4]), ExactSub(a[3], a[4]),
    ExactAdd(a[5], a[6]), ExactSub(a[5], a[6]), ExactAdd(a[7], a[8]), ExactSub(a[7], a[8])>>
ExactC(b) ==
  <<ExactAdd(b[1], b[3]), ExactAdd(b[2], b[4]), ExactSub(b[1], b[3]), ExactSub(b[2], b[4]),
    ExactAdd(b[5], b[7]), ExactAdd(b[6], b[8]), ExactSub(b[5], b[7]), ExactSub(b[6], b[8])>>
ExactOut(c) ==
  <<ExactAdd(c[1], c[5]), ExactSub(c[3], c[7]), ExactSub(c[1], c[5]), ExactAdd(c[3], c[7]),
    ExactAdd(c[4], c[8]), ExactSub(c[4], c[8]), ExactSub(c[2], c[6]), ExactAdd(c[2], c[6])>>
SameRegs(x, y) ==
  \A k \in DOMAIN x : \A l \in DOMAIN x[k] : x[k][l] = y[k][l]
AllLanes(rs, P(_)) == \A k \in DOMAIN rs : \A l \in DOMAIN rs[k] : P(rs[k][l])

Pass1Bound == 8 * MaxSample
WithinPass1Bound(x) == -Pass1Bound <= x /\ x <= Pass1Bound

\* C7: for samples within +-4095 every b, every c and every output of the
\* first pass lies in [-32760, 32760] and equals the unbounded-integer value
\* (no 16-bit addition or subtraction wraps); 32760 is attained for the
\* constant block of value 4095.
C7_Pass1Range ==
  (n = 8 /\ pc = "transpose" /\ WithinBitDepth(InputBlock)) =>
    /\ AllLanes(p1b, WithinPass1Bound) /\ SameRegs(p1b, ExactB(Load8x8(src, 0, stride)))
    /\ AllLanes(p1c, WithinPass1Bound) /\ SameRegs(p1c, ExactC(p1b))
    /\ AllLanes(s, WithinPass1Bound) /\ SameRegs(s, ExactOut(p1c))
    /\ InputIsConst(MaxSample) => \A l \in 0 .. 7 : Lane(Regk(s, 0), l) = 32760

C7_Witness ==
  /\ n = 8 /\ pc = "transpose" /\ InputIsConst(MaxSample)
  /\ Lane(Regk(p1b, 0), 0) = 8190 /\ Lane(Regk(p1c, 0), 0) = 16380
  /\ Lane(Regk(s, 0), 7) = 32760

\* The floor of x / 2^k.
FloorShift(x, k) == [l \in DOMAIN x |-> x[l] \div (2 ^ k)]
\* Operands of the second pass that has just run.
SecondPassInput == IF pc = "high" THEN LowHalf(s) ELSE HighHalf(s)

\* C8: for samples within +-4095 no 32-bit operation overflows: every b, c, d
\* of the second pass, every b, c of the 16x16 combine and every sum,
\* difference, b, c of the 32x32 combine lies in the signed 32-bit range and
\* equals the unbounded-integer value.
C8_NoOverflow32 ==
  WithinBitDepth(InputBlock) =>
    /\ (n = 8 /\ pc \in {"high", "done"}) =>
         /\ AllLanes(p2b, InInt32) /\ SameRegs(p2b, ExactB(SecondPassInput))
         /\ AllLanes(p2c, InInt32) /\ SameRegs(p2c, ExactC(p2b))
         /\ AllLanes(p2d, InInt32) /\ SameRegs(p2d, ExactOut(p2c))
    /\ (n = 16 /\ la # Nil) =>
         /\ AllLanes(lb, InInt32) /\ AllLanes(lc, InInt32)
         /\ SameRegs(lb, <<FloorShift(ExactAdd(la[1], la[2]), 1),
                           FloorShift(ExactSub(la[1], la[2]), 1),
                           FloorShift(ExactAdd(la[3], la[4]), 1),
                           FloorShift(ExactSub(la[3], la[4]), 1)>>)
         /\ SameRegs(lc, <<ExactAdd(lb[1], lb[3]), ExactAdd(lb[2], lb[4]),
                           ExactSub(lb[1], lb[3]), ExactSub(lb[2], lb[4])>>)
    /\ (n = 32 /\ la # Nil) =>
         /\ AllLanes(ls, InInt32) /\ AllLanes(lb, InInt32) /\ AllLanes(lc, InInt32)
         /\ SameRegs(ls, <<ExactAdd(la[1], la[2]), ExactSub(la[1], la[2]),
                           ExactAdd(la[3], la[4]), ExactSub(la[3], la[4])>>)
         /\ SameRegs(lb, <<FloorShift(ls[1], 2), FloorShift(ls[2], 2),
                           FloorShift(ls[3], 2), FloorShift(ls[4], 2)>>)
         /\ SameRegs(lc, <<ExactAdd(lb[1], lb[3]), ExactAdd(lb[2], lb[4]),
                           ExactSub(lb[1], lb[3]), ExactSub(lb[2], lb[4])>>)

C8_Witness ==
  /\ n = 32 /\ pc = "combine" /\ i = 1 /\ InputIsConst(-MaxSample)
  /\ Lane(la[1], 0) = -524160 /\ Lane(ls[1], 0) = -1048320
  /\ Lane(lb[1], 0) = -262080 /\ Lane(lc[1], 0) = -524160

\* The 8x8 transform (section 4.3) of the block whose top-left sample is at
\* row r0, column c0 of the input; element x of the result.
Transform8At(r0, c0) == aom_highbd_hadamard_8x8_neon(src, r0 * stride + c0, stride, coeff, 0)
\* The 16x16 transform (section 4.4) of the block at row r0, column c0.
Transform16At(r0, c0) == aom_highbd_hadamard_16x16_neon(src, r0 * stride + c0, stride, coeff, 0)
\* The combine of section 4.4 / 4.5: with a0..a3 the first Size elements of
\* A0..A3 and b the floor of the pair sums and differences over 2^Shift, the
\* four blocks of Size outputs are b0+b2, b1+b3, b0-b2, b1-b3.
CombineIs(A0, A1, A2, A3, Size, Shift) ==
  \A x \in 0 .. Size - 1 :
    LET b0 == (A0[x] + A1[x]) \div (2 ^ Shift)
        b1 == (A0[x] - A1[x]) \div (2 ^ Shift)
        b2 == (A2[x] + A3[x]) \div (2 ^ Shift)
        b3 == (A2[x] - A3[x]) \div (2 ^ Shift)
    IN  /\ coeff[x] = b0 + b2
        /\ coeff[Size + x] = b1 + b3
        /\ coeff[2 * Size + x] = b0 - b2
        /\ coeff[3 * Size + x] = b1 - b3

\* C9: with a0..a3 the 8x8 transforms of the top-left, top-right, bottom-left
\* and bottom-right quadrants, b0 = floor((a0+a1)/2), b1 = floor((a0-a1)/2),
\* b2 = floor((a2+a3)/2), b3 = floor((a2-a3)/2), the 16x16 output is
\* out[i] = b0+b2, out[64+i] = b1+b3, out[128+i] = b0-b2, out[192+i] = b1-b3
\* for every i in 0..63.
C9_Combine16 ==
  Done(16) =>
    CombineIs(Transform8At(0, 0), Transform8At(0, 8),
              Transform8At(8, 0), Transform8At(8, 8), 64, 1)

C9_Witness ==
  /\ Done(16) /\ InputIsImpulse(0, 0, -1)
  /\ Transform8At(0, 0)[5] = -1 /\ Transform8At(0, 8)[5] = 0
  /\ coeff[5] = -1 /\ coeff[64 + 5] = -1 /\ coeff[128 + 5] = -1 /\ coeff[192 + 5] = -1

\* C10: with a0..a3 the 16x16 transforms of the four quadrants and
\* b0 = floor((a0+a1)/4), b1 = floor((a0-a1)/4), b2 = floor((a2+a3)/4),
\* b3 = floor((a2-a3)/4) (the shift applied before the final add / subtract),
\* the 32x32 output is out[i] = b0+b2, out[256+i] = b1+b3, out[512+i] = b0-b2,
\* out[768+i] = b1-b3 for every i in 0..255.
C10_Combine32 ==
  Done(32) =>
    CombineIs(Transform16At(0, 0), Transform16At(0, 16),
              Transform16At(16, 0), Transform16At(16, 16), 256, 2)

C10_Witness ==
  /\ Done(32) /\ InputIsImpulse(0, 0, -1)
  /\ Transform16At(0, 0)[9] = -1 /\ Transform16At(0, 16)[9] = 0
  /\ coeff[9] = -1 /\ coeff[256 + 9] = -1 /\ coeff[512 + 9] = -1 /\ coeff[768 + 9] = -1

\* ------------------------------------------------------ two calls at once
\* The NxN transform as called: memory after the call.
hadamard_neon(N, smem, off, strd, cmem, coff) ==
  CASE N = 8  -> aom_highbd_hadamard_8x8_neon(smem, off, strd, cmem, coff)
    [] N = 16 -> aom_highbd_hadamard_16x16_neon(smem, off, strd, cmem, coff)
    [] N = 32 -> aom_highbd_hadamard_32x32_neon(smem, off, strd, cmem, coff)
\* Two address ranges [lo, lo + len) that share no element.
Apart(lo1, len1, lo2, len2) == lo1 + len1 <= lo2 \/ lo2 + len2 <= lo1
SrcOf(k) == <<inv[k].sb, SrcLen(inv[k].n, inv[k].stride)>>
CoeffOf(k) == <<inv[k].cb, inv[k].n * inv[k].n>>
BuffersDisjoint ==
  \A r \in {SrcOf(1), CoeffOf(1)}, q \in {SrcOf(2), CoeffOf(2)} :
    Apart(r[1], r[2], q[1], q[2])
\* The memory before either call started.
Heap0 == HeapImage(inv[1], inv[2], Len(heap))
\* The memory after call k has run from Heap0 with no other call.
RunAlone(k) ==
  hadamard_neon(inv[k].n, Heap0, inv[k].sb, inv[k].stride, Heap0, inv[k].cb)
OutputIsAlone(k) ==
  LET alone == RunAlone(k)
  IN  \A x \in 0 .. inv[k].n * inv[k].n - 1 : heap[inv[k].cb + x] = alone[inv[k].cb + x]
BothDone == inv[1].pc = "done" /\ inv[2].pc = "done"

\* C11: when the input and output buffers of two calls (sizes 8, 16, 32 in any
\* combination) are pairwise disjoint, then however their steps interleave,
\* the output buffer of a call that has returned holds what that call
\* produces when it runs alone.
C11_Interleaved ==
  BuffersDisjoint => \A k \in Calls : inv[k].pc = "done" => OutputIsAlone(k)

C11_Witness ==
  /\ BothDone /\ BuffersDisjoint
  /\ inv[1].n = 32 /\ inv[2].n = 16
  /\ OutputIsAlone(1) /\ OutputIsAlone(2)
  /\ heap[inv[1].cb] # heap[inv[2].cb]

\* Two 8x8 calls given the same output buffer: the call that finished first
\* has lost its output.
SharedOutputIsAlone ==
  (~BuffersDisjoint /\ BothDone) => (OutputIsAlone(1) /\ OutputIsAlone(2))

\* The output of the transform of the block given to call k, computed away
\* from the call: rows stored densely (stride N), nothing around the block,
\* and the output written at address 1 over whatever the memory holds there.
OutputOfBlock(k) ==
  hadamard_neon(inv[k].n, SrcImage(inv[k].n, inv[k].n, inv[k].blk, 0), 0, inv[k].n, heap, 1)
Unwritten == CHOOSE v \in UninitVals : TRUE
\* Call k has returned with every output element written, holding the
\* transform of its NxN samples.
OutputIsOfBlock(k) ==
  LET out == OutputOfBlock(k)
  IN  \A x \in 0 .. inv[k].n * inv[k].n - 1 :
        heap[inv[k].cb + x] = out[1 + x] /\ heap[inv[k].cb + x] # Unwritten
\* Nothing outside the output buffers has changed since the calls started.
OnlyOutputsWritten ==
  \A x \in DOMAIN heap :
    (~InCoeff(inv[1], x) /\ ~InCoeff(inv[2], x)) => heap[x] = Heap0[x]
\* Memory m2 differs from m1 at most at addresses lo .. lo + len - 1.
SameOutside(m1, m2, lo, len) ==
  /\ SubSeq(m2, 1, lo - 1) = SubSeq(m1, 1, lo - 1)
  /\ SubSeq(m2, lo + len, Len(m2)) = SubSeq(m1, lo + len, Len(m1))
\* A step of call k changes memory only inside the output buffer of call k.
StepWritesOwnOutput ==
  \A k \in Calls :
    inv'[k] # inv[k] => SameOutside(heap, heap', inv[k].cb, inv[k].n * inv[k].n)

\* C12: a call of the NxN transform (N = 8, 16, 32) writes every output index
\* 0..N*N-1 and no other location, never writes its input, and its final
\* output depends on the NxN input samples only: not on the previous contents
\* of the output buffer, not on the stride, not on the elements between rows.
C12_Frame ==
  /\ [](/\ BothDone => OnlyOutputsWritten
        /\ BuffersDisjoint => \A k \in Calls : inv[k].pc = "done" => OutputIsOfBlock(k))
  /\ [][StepWritesOwnOutput]_vars

C12_Witness ==
  /\ inv[2].n = 32 /\ inv[2].pc = "done" /\ inv[2].stride = 33
  /\ OutputIsOfBlock(2)
  /\ heap[inv[2].sb + 32] \in PadVals
  /\ heap[inv[2].cb + 1024] \in PadVals /\ heap[inv[2].cb - 1] \in PadVals

\* -------------------------------------------- a call taken in another order
\* The output of the call when its steps are taken in program order.
ProgramOrderOutput == hadamard_neon(n, src, 0, stride, coeff, 0)
\* The output range of quadrant q and the four 4-element groups of iteration it.
QuadrantRange(q) == {q * ((n * n) \div 4) + x : x \in 0 .. (n * n) \div 4 - 1}
OwnGroups(it) == {g * ((n * n) \div 4) + 4 * it + l : g \in 0 .. 3, l \in 0 .. 3}
SameExcept(own) == \A x \in DOMAIN coeff \ own : coeff'[x] = coeff[x]
\* coeff with everything outside own replaced by other values.
Masked(own) == [x \in DOMAIN coeff |-> IF x \in own THEN coeff[x] ELSE x + 1]
CombineIter(mem, it) ==
  IF n = 16 THEN Combine16Iter(mem, 0, it).mem ELSE Combine32Iter(mem, 0, it).mem
\* A sub-call writes only the range of its quadrant.
QuadrantStepIsLocal ==
  (pc = "quad" /\ doneq' # doneq) =>
    \E q \in doneq' \ doneq : SameExcept(QuadrantRange(q))
\* A combine iteration writes only its own four groups, and what it writes
\* is determined by what these hold.
CombineStepIsLocal ==
  (pc = "combine" /\ i' = i + 1) =>
    LET own == OwnGroups(IterationAt(order, Iterations(n), i))
        alt == CombineIter(Masked(own), IterationAt(order, Iterations(n), i))
    IN  /\ SameExcept(own)
        /\ \A x \in own : coeff'[x] = alt[x]

\* C13: in the 16x16 and 32x32 transforms the four quadrant sub-transforms
\* write pairwise disjoint quarters of the output, each combine iteration reads
\* and writes only its own four 4-element groups, and running the sub-transforms
\* in any order followed by the combine iterations in any order gives the same
\* final output as the program order.
C13_AnyOrder ==
  /\ [](pc = "done" => coeff = ProgramOrderOutput)
  /\ [][QuadrantStepIsLocal /\ CombineStepIsLocal]_vars

C13_Witness ==
  /\ Done(32) /\ order = <<63, 3>> /\ stride = 33
  /\ coeff = ProgramOrderOutput
  /\ coeff[0] # coeff[256]

\* ------------------------------------------------- ExternalFrameBufferList
InUse == {e \in 0 .. num_buffers - 1 : ext_fb_list[e].in_use = 1}
AllInUse == InUse = 0 .. num_buffers - 1
Holding == {h \in Holders : fb[h].holding}
\* A call of GetFreeFrameBuffer returns -1 and changes nothing exactly when
\* every entry is in use; otherwise it returns 0, hands out the lowest-index
\* entry not in use, marks it in use and leaves it with size >= min_size, and
\* the assertion of SetFrameBuffer holds.
GetFreeIsRight ==
  ret'.op = "GetFreeFrameBuffer" =>
    IF AllInUse
    THEN ret'.rv = -1 /\ UNCHANGED <<ext_fb_list, fb, num_used_buffers>>
    ELSE LET e == fb'[ret'.h].priv
         IN  /\ ret'.rv = 0 /\ ~ret'.asserted
             /\ e \in (0 .. num_buffers - 1) \ InUse
             /\ \A d \in 0 .. e - 1 : d \in InUse
             /\ ext_fb_list'[e].in_use = 1
             /\ ext_fb_list'[e].size >= ret'.min_size
             /\ fb'[ret'.h].size = ext_fb_list'[e].size
             /\ \A d \in (0 .. num_buffers - 1) \ {e} : ext_fb_list'[d] = ext_fb_list[d]
NoEntryHeldTwice ==
  \A h1 \in Holding, h2 \in Holding : h1 # h2 => fb[h1].priv # fb[h2].priv

\* C14 as stated: after any sequence of GetFreeFrameBuffer and
\* ReturnFrameBuffer calls, GetFreeFrameBuffer behaves as described above, the
\* assertion in SetFrameBuffer never fails, and no entry is held by two
\* holders at once.
C14_Original ==
  /\ [][GetFreeIsRight]_vars
  /\ [](ret # Nil => ~ret.asserted)
  /\ []NoEntryHeldTwice

\* C14 amended: after any sequence of GetFreeFrameBuffer and
\* ReturnFrameBuffer calls, GetFreeFrameBuffer behaves as described above and
\* the assertion in SetFrameBuffer never fails; no entry is held by two
\* holders at once provided only currently held buffers have been returned.
C14_GetFree ==
  /\ [][GetFreeIsRight]_vars
  /\ [](ret # Nil => ~ret.asserted)
  /\ [](~misuse => NoEntryHeldTwice)

C14_Witness ==
  /\ ~misuse /\ num_buffers = 1 /\ AllInUse /\ Holding = {1}
  /\ ret.op = "GetFreeFrameBuffer" /\ ret.rv = -1 /\ ret.h = 2
  /\ ext_fb_list[0].size = 2 /\ fb[1].priv = 0

\* C15 as stated: after any sequence of GetFreeFrameBuffer,
\* GetZeroFrameBuffer and ReturnFrameBuffer calls in which only currently held
\* buffers are returned, num_used_buffers() equals the number of entries marked
\* in use (so it lies in 0 .. num_buffers), and it is 0 once every acquired
\* buffer has been returned.
C15_Original ==
  ~misuse =>
    /\ num_used_buffers = Cardinality(InUse)
    /\ 0 <= num_used_buffers /\ num_used_buffers <= num_buffers
    /\ Holding = {} => num_used_buffers = 0

\* ------------------------------------------------- beyond the bit depth
\* C16: the 8x8 transform neither detects nor saturates samples beyond the bit
\* depth. Pass 1 computes modulo 2^16: for the constant block 4096 the column
\* sum 32768 wraps to -32768, and the call completes with -262144 (not 262144)
\* at output index 0 and 0 at the other 63; for any constant block C the output
\* index 0 holds 8 times the 16-bit wraparound of 8*C.
C16_Wraps ==
  LET C == Sample(0, 0)
  IN  /\ (pc = "transpose" /\ C = 4096) => \A l \in 0 .. 7 : Lane(Regk(s, 0), l) = -32768
      /\ (pc = "done" /\ C = 4096) => OnlyDC(8, -262144)
      /\ pc = "done" => OnlyDC(8, 8 * Wrap16(8 * C))

C16_Witness ==
  /\ Done(8) /\ InputIsConst(4096)
  /\ coeff[0] = -262144 /\ coeff[0] # 64 * 4096 /\ coeff[63] = 0

\* ------------------------------------------------------- floor halving
\* The 16x16 transform of the negation of the input block.
TransformOfNegated16 ==
  aom_highbd_hadamard_16x16_neon(
    SrcImage(16, 16, [p \in Cells(16) |-> -Sample(p[1], p[2])], 0), 0, 16, coeff, 0)

\* C17: the 16x16 block with the single sample +1 at row 0, column 0 gives an
\* all-zero output, the block with the single sample -1 there gives -1 at all
\* 256 output indices; so a zero output does not imply a zero input and the
\* output of the negated block is not the negated output.
C17_FloorHalving ==
  Done(16) =>
    /\ InputIsImpulse(0, 0, 1) =>
         /\ \A x \in 0 .. 255 : coeff[x] = 0
         /\ \A x \in 0 .. 255 : TransformOfNegated16[x] = -1
    /\ InputIsImpulse(0, 0, -1) => \A x \in 0 .. 255 : coeff[x] = -1

C17_Witness ==
  /\ Done(16) /\ InputIsImpulse(0, 0, 1)
  /\ coeff[0] = 0 /\ coeff[255] = 0
  /\ TransformOfNegated16[255] = -1

====
